---- MODULE Spec2Model ----
(***************************************************************************)
(* Order registry of src/server.js: the system flag, the order list, the   *)
(* id counter, the map of expiration timers, and the socket.io handlers    *)
(* that change them.  Each handler runs to completion (Node's event loop), *)
(* so each handler and each timer callback is one action.                  *)
(***************************************************************************)
EXTENDS Integers, Sequences, FiniteSets, TLC

\* ---------------------------------------------------------------- bounds
\* largest id createOrder may allocate between two resets
MaxId == 2
\* number of order objects (and timers) created over the process lifetime
MaxCriados == 2

\* ------------------------------------------------------------ JS values
Sockets == {"s1", "s2"}

\* new Date().toLocaleTimeString(): the wall clock is not under the
\* program's control, any reading is possible
Horas == {"10:00:00"}

\* a property that was never assigned
Ausente == "undefined"

\* strings are sequences of characters, so that trim() is computed
Str(cs) == [t |-> "string", v |-> cs]
Undefined == [t |-> "undefined", v |-> <<>>]
Numero == [t |-> "number", v |-> <<"5">>]

Textos == {<<>>, <<" ">>, <<" ", "a", " ">>}

Valores == {Undefined, Numero} \cup {Str(cs) : cs \in Textos}

Valido == Str(<<" ", "a", " ">>)

Objeto(c, i) == [t |-> "object", cliente |-> c, itens |-> i]

\* payloads of pedido.criar: no argument at all, or an object in which
\* one property takes every kind of value while the other is a valid text
SemDados == [t |-> "undefined"]
Dados == {SemDados} \cup {Objeto(c, Valido) : c \in Valores} \cup {Objeto(Valido, i) : i \in Valores}

\* payloads of the id-carrying events: a number, or the same digits as text
PedidoIds == {[t |-> "number", v |-> n] : n \in 1..MaxId} \cup {[t |-> "string", v |-> 1]}

\* ------------------------------------------------------- pure functions
RECURSIVE TrimStart(_)
TrimStart(cs) == IF cs # <<>> /\ Head(cs) = " " THEN TrimStart(Tail(cs)) ELSE cs

RECURSIVE TrimEnd(_)
TrimEnd(cs) == IF cs # <<>> /\ cs[Len(cs)] = " " THEN TrimEnd(SubSeq(cs, 1, Len(cs) - 1)) ELSE cs

\* String.prototype.trim
Trim(cs) == TrimEnd(TrimStart(cs))

\* the operand of `!x`: undefined and "" are falsy, 5 and " " are truthy
Truthy(val) == \/ val.t = "number"
               \/ val.t = "string" /\ val.v # <<>>

\* `x.trim()` throws TypeError unless x is a string
TemTrim(val) == val.t = "string"

\* ---------------------------------------------------------------- state
VARIABLES sistemaAtivo, pedidos, proximoId, timersExpiracao, timers, atribuidos, hist, emitidos, ultima

\* the same state in src/sistema-pedidos/server.js, which has no timer map
VARIABLES v_sistemaAtivo, v_pedidos, v_proximoId, v_timers, v_expirados, v_emitidos, v_ultima

varsServidor == <<sistemaAtivo, pedidos, proximoId, timersExpiracao, timers, atribuidos, hist, emitidos, ultima>>

varsV == <<v_sistemaAtivo, v_pedidos, v_proximoId, v_timers, v_expirados, v_emitidos, v_ultima>>

vars == <<varsServidor, varsV>>

estado == <<sistemaAtivo, pedidos, proximoId, timersExpiracao, timers>>

\* atribuidos: the id given to each order object, in creation order
Criados == Len(atribuidos)

Uids == 1..MaxCriados

\* pedidos.find(p => p.id === pedidoId): index of the first match, 0 if none
Find(pedidoId) ==
    LET achados == {i \in 1..Len(pedidos) : pedidoId.t = "number" /\ pedidos[i].id = pedidoId.v}
    IN IF achados = {} THEN 0 ELSE CHOOSE i \in achados : \A j \in achados : i <= j

\* socket.emit('erro.operacao', {mensagem})
ErroOperacao(s, msg) == [para |-> s, evento |-> "erro.operacao", mensagem |-> msg, pedido |-> <<>>]

\* socket.emit in place of io.emit: only one connection hears of it
Broadcast_SoSocket(evento, pedido) == [para |-> "s1", evento |-> evento, mensagem |-> "", pedido |-> <<pedido>>]

\* io.emit(evento, pedido)
Broadcast(evento, pedido) == [para |-> "io", evento |-> evento, mensagem |-> "", pedido |-> <<pedido>>]

\* io.emit(evento, {mensagem, timestamp})
Aviso(evento, msg) == [para |-> "io", evento |-> evento, mensagem |-> msg, pedido |-> <<>>]

\* which handler ran last, and whether it ended by throwing.  A throw ends
\* the handler where it happens; the assignments made before it stay, and
\* what the transport does with the exception is not decided in this file
Ultima(op, exc) == [op |-> op, excecao |-> exc]

\* history of the orders of the collection: whether the order was ever
\* accepted, and how many pedido.expirado broadcasts carried it
SemHist == [u \in Uids |-> [aceito |-> FALSE, expirados |-> 0]]

V_Init ==
    /\ v_sistemaAtivo = FALSE
    /\ v_pedidos = <<>>
    /\ v_proximoId = 1
    /\ v_timers = {}
    /\ v_expirados = [u \in Uids |-> 0]
    /\ v_emitidos = <<>>
    /\ v_ultima = Ultima("inicio", FALSE)

Init ==
    /\ V_Init
    /\ sistemaAtivo = FALSE
    /\ pedidos = <<>>
    /\ proximoId = 1
    /\ timersExpiracao = <<>>
    /\ timers = {}
    /\ atribuidos = <<>>
    /\ hist = SemHist
    /\ emitidos = <<>>
    /\ ultima = Ultima("inicio", FALSE)

\* a limparTimer that drops the map entry and leaves the timeout running
limparTimer_SoMapa(pedidoId) ==
    <<[k \in (DOMAIN timersExpiracao) \ {pedidoId} |-> timersExpiracao[k]], timers>>

\* a limparTimer that clears the timeout and keeps the map entry
limparTimer_SoClear(pedidoId) ==
    IF pedidoId \in DOMAIN timersExpiracao
    THEN <<timersExpiracao, {t \in timers : t.h # timersExpiracao[pedidoId]}>>
    ELSE <<timersExpiracao, timers>>

\* a limparTimer that clears every timer
limparTimer_Todos(pedidoId) == <<<<>>, {}>>

\* a limparTimer that forgets the timer
limparTimer_Esquece(pedidoId) == <<timersExpiracao, timers>>

\* clearTimeout + Map.delete, as a pair <<map, live timers>>
limparTimer(pedidoId) ==
    IF pedidoId \in DOMAIN timersExpiracao
    THEN <<[k \in (DOMAIN timersExpiracao) \ {pedidoId} |-> timersExpiracao[k]],
           {t \in timers : t.h # timersExpiracao[pedidoId]}>>
    ELSE <<timersExpiracao, timers>>

SistemaIniciar(s) ==
    /\ sistemaAtivo' = TRUE
    /\ emitidos' = <<Aviso("sistema.iniciado", "Sistema de pedidos iniciado!")>>
    /\ ultima' = Ultima("sistema.iniciar", FALSE)
    /\ UNCHANGED <<pedidos, proximoId, timersExpiracao, timers, atribuidos, hist>>

\* an order object numbered with `++proximoId`
NovoPedido_PreIncremento(s, dados, agora) ==
    [id |-> proximoId + 1,
     cliente |-> Trim(dados.cliente.v),
     itens |-> Trim(dados.itens.v),
     status |-> "pendente",
     criadoEm |-> agora,
     socketId |-> s,
     prontoEm |-> Ausente,
     canceladoEm |-> Ausente,
     entregueEm |-> Ausente,
     uid |-> Criados + 1]

\* the order object built by pedido.criar (uid: the identity of the object)
NovoPedido(s, dados, agora) ==
    [id |-> proximoId,
     cliente |-> Trim(dados.cliente.v),
     itens |-> Trim(dados.itens.v),
     status |-> "pendente",
     criadoEm |-> agora,
     socketId |-> s,
     prontoEm |-> Ausente,
     canceladoEm |-> Ausente,
     entregueEm |-> Ausente,
     uid |-> Criados + 1]

\* `!dados.cliente || !dados.itens`
DadosInvalidos(dados) == ~Truthy(dados.cliente) \/ ~Truthy(dados.itens)

\* a create handler that never checks the flag
SistemaInativo_Nunca == FALSE

\* line 62: `!sistemaAtivo`
SistemaInativo == ~sistemaAtivo

\* a counter that is read but not incremented
ProximoDepois_SemIncremento == proximoId

\* line 79: the value of proximoId after `proximoId++`
ProximoDepois == proximoId + 1

PedidoCriar(s, dados) ==
    /\ IF SistemaInativo
       THEN /\ emitidos' = <<ErroOperacao(s, "Sistema não está ativo!")>>
            /\ ultima' = Ultima("pedido.criar", FALSE)
            /\ UNCHANGED <<estado, atribuidos, hist>>
       ELSE IF dados.t = "undefined"
       THEN \* dados.cliente on undefined: TypeError at line 70
            /\ emitidos' = <<>>
            /\ ultima' = Ultima("pedido.criar", TRUE)
            /\ UNCHANGED <<estado, atribuidos, hist>>
       ELSE IF DadosInvalidos(dados)
       THEN /\ emitidos' = <<ErroOperacao(s, "Dados inválidos! Cliente e itens são obrigatórios.")>>
            /\ ultima' = Ultima("pedido.criar", FALSE)
            /\ UNCHANGED <<estado, atribuidos, hist>>
       ELSE IF ~TemTrim(dados.cliente) \/ ~TemTrim(dados.itens)
       THEN \* proximoId++ at line 79 has run when .trim() throws at line 80 or 81
            /\ proximoId <= MaxId
            /\ proximoId' = ProximoDepois
            /\ emitidos' = <<>>
            /\ ultima' = Ultima("pedido.criar", TRUE)
            /\ UNCHANGED <<sistemaAtivo, pedidos, timersExpiracao, timers, atribuidos, hist>>
       ELSE /\ proximoId <= MaxId
            /\ Criados < MaxCriados
            /\ \E agora \in Horas :
                 LET novoPedido == NovoPedido(s, dados, agora) IN
                 /\ proximoId' = ProximoDepois
                 /\ pedidos' = Append(pedidos, novoPedido)
                 /\ emitidos' = <<Broadcast("pedido.criado", novoPedido)>>
                 /\ timers' = timers \cup {[h |-> novoPedido.uid, id |-> novoPedido.id]}
                 /\ timersExpiracao' = [k \in (DOMAIN timersExpiracao) \cup {novoPedido.id} |->
                                          IF k = novoPedido.id THEN novoPedido.uid ELSE timersExpiracao[k]]
            /\ atribuidos' = Append(atribuidos, proximoId)
            /\ ultima' = Ultima("pedido.criar", FALSE)
            /\ UNCHANGED <<sistemaAtivo, hist>>

\* a callback that finds its order but never sees it pending
AindaPendente_Nunca(i) == FALSE

\* line 96: `pedido && pedido.status === 'pendente'`, i the result of find
AindaPendente(i) == i # 0 /\ pedidos[i].status = "pendente"

\* the setTimeout callback of the order whose timer is t; timers of equal
\* delay run in the order they were scheduled
TimerExpiracao(t) ==
    /\ t \in timers
    /\ \A o \in timers : t.h <= o.h
    /\ LET i == Find([t |-> "number", v |-> t.id]) IN
       IF AindaPendente(i)
       THEN /\ pedidos' = [pedidos EXCEPT ![i].status = "expirado"]
            /\ emitidos' = <<Broadcast("pedido.expirado", pedidos'[i])>>
            /\ timersExpiracao' = [k \in (DOMAIN timersExpiracao) \ {t.id} |-> timersExpiracao[k]]
            /\ hist' = [hist EXCEPT ![pedidos[i].uid].expirados = @ + 1]
       ELSE /\ emitidos' = <<>>
            /\ UNCHANGED <<pedidos, timersExpiracao, hist>>
    /\ timers' = timers \ {t}
    /\ ultima' = Ultima("timer", FALSE)
    /\ UNCHANGED <<sistemaAtivo, proximoId, atribuidos>>

\* line 125: `pedido.status !== 'pendente'` rejects
PodeAceitar(p) == p.status = "pendente"

PedidoAceitar(s, pedidoId) ==
    LET i == Find(pedidoId) IN
    /\ ultima' = Ultima("pedido.aceitar", FALSE)
    /\ IF i = 0
       THEN /\ emitidos' = <<ErroOperacao(s, "Pedido não encontrado!")>>
            /\ UNCHANGED <<estado, atribuidos, hist>>
       ELSE IF ~PodeAceitar(pedidos[i])
       THEN /\ emitidos' = <<ErroOperacao(s, "Apenas pedidos pendentes podem ser aceitos!")>>
            /\ UNCHANGED <<estado, atribuidos, hist>>
       ELSE /\ pedidos' = [pedidos EXCEPT ![i].status = "preparando"]
            /\ timersExpiracao' = limparTimer(pedidoId.v)[1]
            /\ timers' = limparTimer(pedidoId.v)[2]
            /\ emitidos' = <<Broadcast("pedido.aceito", pedidos'[i])>>
            /\ hist' = [hist EXCEPT ![pedidos[i].uid].aceito = TRUE]
            /\ UNCHANGED <<sistemaAtivo, proximoId, atribuidos>>

\* a finalize handler without the status check
PodeFinalizar_Sempre(p) == TRUE

\* line 155: `pedido.status !== 'preparando'` rejects
PodeFinalizar(p) == p.status = "preparando"

PedidoFinalizar(s, pedidoId) ==
    LET i == Find(pedidoId) IN
    /\ ultima' = Ultima("pedido.finalizar", FALSE)
    /\ IF i = 0
       THEN /\ emitidos' = <<ErroOperacao(s, "Pedido não encontrado!")>>
            /\ UNCHANGED <<estado, atribuidos, hist>>
       ELSE IF ~PodeFinalizar(pedidos[i])
       THEN /\ emitidos' = <<ErroOperacao(s, "Apenas pedidos em preparo podem ser finalizados!")>>
            /\ UNCHANGED <<estado, atribuidos, hist>>
       ELSE /\ \E agora \in Horas :
                 pedidos' = [pedidos EXCEPT ![i].status = "pronto", ![i].prontoEm = agora]
            /\ emitidos' = <<Broadcast("pedido.finalizado", pedidos'[i])>>
            /\ UNCHANGED <<sistemaAtivo, proximoId, timersExpiracao, timers, atribuidos, hist>>

\* a cancel handler that refuses delivered orders only
NaoCancelavel_SoEntregue(p) == p.status = "entregue"

\* line 183: delivered and canceled orders cannot be canceled
NaoCancelavel(p) == p.status = "entregue" \/ p.status = "cancelado"

PedidoCancelar(s, pedidoId) ==
    LET i == Find(pedidoId) IN
    /\ ultima' = Ultima("pedido.cancelar", FALSE)
    /\ IF i = 0
       THEN /\ emitidos' = <<ErroOperacao(s, "Pedido não encontrado!")>>
            /\ UNCHANGED <<estado, atribuidos, hist>>
       ELSE IF NaoCancelavel(pedidos[i])
       THEN /\ emitidos' = <<ErroOperacao(s, "Este pedido não pode ser cancelado!")>>
            /\ UNCHANGED <<estado, atribuidos, hist>>
       ELSE /\ \E agora \in Horas :
                 pedidos' = [pedidos EXCEPT ![i].status = "cancelado", ![i].canceladoEm = agora]
            /\ timersExpiracao' = limparTimer(pedidoId.v)[1]
            /\ timers' = limparTimer(pedidoId.v)[2]
            /\ emitidos' = <<Broadcast("pedido.cancelado", pedidos'[i])>>
            /\ UNCHANGED <<sistemaAtivo, proximoId, atribuidos, hist>>

\* a deliver handler without the status check
PodeEntregar_Sempre(p) == TRUE

\* line 214: `pedido.status !== 'pronto'` rejects
PodeEntregar(p) == p.status = "pronto"

PedidoEntregar(s, pedidoId) ==
    LET i == Find(pedidoId) IN
    /\ ultima' = Ultima("pedido.entregar", FALSE)
    /\ IF i = 0
       THEN /\ emitidos' = <<ErroOperacao(s, "Pedido não encontrado!")>>
            /\ UNCHANGED <<estado, atribuidos, hist>>
       ELSE IF ~PodeEntregar(pedidos[i])
       THEN /\ emitidos' = <<ErroOperacao(s, "Apenas pedidos prontos podem ser entregues!")>>
            /\ UNCHANGED <<estado, atribuidos, hist>>
       ELSE /\ \E agora \in Horas :
                 pedidos' = [pedidos EXCEPT ![i].status = "entregue", ![i].entregueEm = agora]
            /\ emitidos' = <<Broadcast("pedido.entregue", pedidos'[i])>>
            /\ UNCHANGED <<sistemaAtivo, proximoId, timersExpiracao, timers, atribuidos, hist>>

\* a reset that also switches the system off
SistemaReset_Desliga(s) ==
    /\ timers' = {t \in timers : \A k \in DOMAIN timersExpiracao : timersExpiracao[k] # t.h}
    /\ timersExpiracao' = <<>>
    /\ pedidos' = <<>>
    /\ proximoId' = 1
    /\ sistemaAtivo' = FALSE
    /\ emitidos' = <<Aviso("sistema.resetado", "Sistema resetado com sucesso!")>>
    /\ ultima' = Ultima("sistema.reset", FALSE)
    /\ hist' = SemHist
    /\ UNCHANGED atribuidos

\* a reset that empties the list and the counter and leaves the timers
SistemaReset_SoPedidos(s) ==
    /\ pedidos' = <<>>
    /\ proximoId' = 1
    /\ emitidos' = <<Aviso("sistema.resetado", "Sistema resetado com sucesso!")>>
    /\ ultima' = Ultima("sistema.reset", FALSE)
    /\ hist' = SemHist
    /\ UNCHANGED <<sistemaAtivo, atribuidos, timers, timersExpiracao>>

\* a reset that clears the map without clearing the timeouts
SistemaReset_SemClearTimeout(s) ==
    /\ timersExpiracao' = <<>>
    /\ pedidos' = <<>>
    /\ proximoId' = 1
    /\ emitidos' = <<Aviso("sistema.resetado", "Sistema resetado com sucesso!")>>
    /\ ultima' = Ultima("sistema.reset", FALSE)
    /\ hist' = SemHist
    /\ UNCHANGED <<sistemaAtivo, atribuidos, timers>>

SistemaReset(s) ==
    \* forEach(clearTimeout) over the map's values, then Map.clear
    /\ timers' = {t \in timers : \A k \in DOMAIN timersExpiracao : timersExpiracao[k] # t.h}
    /\ timersExpiracao' = <<>>
    /\ pedidos' = <<>>
    /\ proximoId' = 1
    /\ emitidos' = <<Aviso("sistema.resetado", "Sistema resetado com sucesso!")>>
    /\ ultima' = Ultima("sistema.reset", FALSE)
    /\ hist' = SemHist
    /\ UNCHANGED <<sistemaAtivo, atribuidos>>

\* ----------------------------------- src/sistema-pedidos/server.js
V_Find(pedidoId) ==
    LET achados == {i \in 1..Len(v_pedidos) : pedidoId.t = "number" /\ v_pedidos[i].id = pedidoId.v}
    IN IF achados = {} THEN 0 ELSE CHOOSE i \in achados : \A j \in achados : i <= j

V_SistemaIniciar(s) ==
    /\ v_sistemaAtivo' = TRUE
    /\ v_emitidos' = <<Aviso("sistema.iniciado", "Sistema de pedidos iniciado!")>>
    /\ v_ultima' = Ultima("sistema.iniciar", FALSE)
    /\ UNCHANGED <<v_pedidos, v_proximoId, v_timers, v_expirados>>

\* the order object of the variant: the payload's values as they came
V_NovoPedido(s, dados, agora) ==
    [id |-> v_proximoId,
     cliente |-> dados.cliente,
     itens |-> dados.itens,
     status |-> "pendente",
     criadoEm |-> agora,
     socketId |-> s,
     uid |-> Len(v_pedidos) + 1]

V_PedidoCriar(s, dados) ==
    /\ v_ultima' = Ultima("pedido.criar", dados.t = "undefined" /\ v_sistemaAtivo)
    /\ IF ~v_sistemaAtivo
       THEN /\ v_emitidos' = <<ErroOperacao(s, "Sistema não está ativo!")>>
            /\ UNCHANGED <<v_sistemaAtivo, v_pedidos, v_proximoId, v_timers, v_expirados>>
       ELSE IF dados.t = "undefined"
       THEN \* proximoId++ at line 62 has run when dados.cliente throws at line 63
            /\ v_proximoId <= MaxId
            /\ v_proximoId' = v_proximoId + 1
            /\ v_emitidos' = <<>>
            /\ UNCHANGED <<v_sistemaAtivo, v_pedidos, v_timers, v_expirados>>
       ELSE /\ v_proximoId <= MaxId
            /\ Len(v_pedidos) < MaxCriados
            /\ \E agora \in Horas :
                 LET novoPedido == V_NovoPedido(s, dados, agora) IN
                 /\ v_proximoId' = v_proximoId + 1
                 /\ v_pedidos' = Append(v_pedidos, novoPedido)
                 /\ v_emitidos' = <<Broadcast("pedido.criado", novoPedido)>>
                 /\ v_timers' = v_timers \cup {[h |-> novoPedido.uid, id |-> novoPedido.id]}
            /\ UNCHANGED <<v_sistemaAtivo, v_expirados>>

\* a callback that expires whatever order it finds
V_AindaPendente_SemStatus(i) == i # 0

\* line 79: `pedido && pedido.status === 'pendente'`, i the result of find
V_AindaPendente(i) == i # 0 /\ v_pedidos[i].status = "pendente"

\* the setTimeout callback; the variant keeps no handle and clears no timer
V_TimerExpiracao(t) ==
    /\ t \in v_timers
    /\ \A o \in v_timers : t.h <= o.h
    /\ LET i == V_Find([t |-> "number", v |-> t.id]) IN
       IF V_AindaPendente(i)
       THEN /\ v_pedidos' = [v_pedidos EXCEPT ![i].status = "expirado"]
            /\ v_emitidos' = <<Broadcast("pedido.expirado", v_pedidos'[i])>>
            /\ v_expirados' = [v_expirados EXCEPT ![v_pedidos[i].uid] = @ + 1]
       ELSE /\ v_emitidos' = <<>>
            /\ UNCHANGED <<v_pedidos, v_expirados>>
    /\ v_timers' = v_timers \ {t}
    /\ v_ultima' = Ultima("timer", FALSE)
    /\ UNCHANGED <<v_sistemaAtivo, v_proximoId>>

\* the four id-carrying handlers: `if (pedido && <status test>)`, no else;
\* i is the result of find, pode the value of the condition
V_Mudar(op, evento, i, pode, novo) ==
    /\ v_ultima' = Ultima(op, FALSE)
    /\ IF pode
       THEN /\ v_pedidos' = [v_pedidos EXCEPT ![i].status = novo]
            /\ v_emitidos' = <<Broadcast(evento, v_pedidos'[i])>>
       ELSE /\ v_emitidos' = <<>>
            /\ UNCHANGED v_pedidos
    /\ UNCHANGED <<v_sistemaAtivo, v_proximoId, v_timers, v_expirados>>

\* line 95
V_PodeAceitar(p) == p.status = "pendente"

V_PedidoAceitar(s, pedidoId) ==
    LET i == V_Find(pedidoId)
    IN V_Mudar("pedido.aceitar", "pedido.aceito", i, i # 0 /\ V_PodeAceitar(v_pedidos[i]), "preparando")

\* line 110
V_PodeFinalizar(p) == p.status = "preparando"

V_PedidoFinalizar(s, pedidoId) ==
    LET i == V_Find(pedidoId)
    IN V_Mudar("pedido.finalizar", "pedido.finalizado", i, i # 0 /\ V_PodeFinalizar(v_pedidos[i]), "pronto")

\* line 123: only a delivered order cannot be canceled
V_PodeCancelar(p) == p.status # "entregue"

V_PedidoCancelar(s, pedidoId) ==
    LET i == V_Find(pedidoId)
    IN V_Mudar("pedido.cancelar", "pedido.cancelado", i, i # 0 /\ V_PodeCancelar(v_pedidos[i]), "cancelado")

\* line 138
V_PodeEntregar(p) == p.status = "pronto"

V_PedidoEntregar(s, pedidoId) ==
    LET i == V_Find(pedidoId)
    IN V_Mudar("pedido.entregar", "pedido.entregue", i, i # 0 /\ V_PodeEntregar(v_pedidos[i]), "entregue")

\* ------------------------------------------------------- specifications
\* src/server.js on its own
Next ==
    \/ \E s \in Sockets : SistemaIniciar(s) /\ UNCHANGED varsV
    \/ \E s \in Sockets, dados \in Dados : PedidoCriar(s, dados) /\ UNCHANGED varsV
    \/ \E t \in timers : TimerExpiracao(t) /\ UNCHANGED varsV
    \/ \E s \in Sockets, pedidoId \in PedidoIds : PedidoAceitar(s, pedidoId) /\ UNCHANGED varsV
    \/ \E s \in Sockets, pedidoId \in PedidoIds : PedidoFinalizar(s, pedidoId) /\ UNCHANGED varsV
    \/ \E s \in Sockets, pedidoId \in PedidoIds : PedidoCancelar(s, pedidoId) /\ UNCHANGED varsV
    \/ \E s \in Sockets, pedidoId \in PedidoIds : PedidoEntregar(s, pedidoId) /\ UNCHANGED varsV
    \/ \E s \in Sockets : SistemaReset(s) /\ UNCHANGED varsV

Spec == Init /\ [][Next]_vars

\* the timer callback is scheduled by the runtime once its delay has elapsed
SpecJusto == Spec /\ WF_vars(\E t \in timers : TimerExpiracao(t) /\ UNCHANGED varsV)

\* payloads for the variant, which never looks into customer or items:
\* none, a valid one, and one with a missing and an empty property
V_Dados == {SemDados, Objeto(Valido, Valido), Objeto(Undefined, Str(<<>>))}

\* src/sistema-pedidos/server.js on its own
V_Next ==
    \/ \E s \in Sockets : V_SistemaIniciar(s) /\ UNCHANGED varsServidor
    \/ \E s \in Sockets, dados \in V_Dados : V_PedidoCriar(s, dados) /\ UNCHANGED varsServidor
    \/ \E t \in v_timers : V_TimerExpiracao(t) /\ UNCHANGED varsServidor
    \/ \E s \in Sockets, pedidoId \in PedidoIds : V_PedidoAceitar(s, pedidoId) /\ UNCHANGED varsServidor
    \/ \E s \in Sockets, pedidoId \in PedidoIds : V_PedidoFinalizar(s, pedidoId) /\ UNCHANGED varsServidor
    \/ \E s \in Sockets, pedidoId \in PedidoIds : V_PedidoCancelar(s, pedidoId) /\ UNCHANGED varsServidor
    \/ \E s \in Sockets, pedidoId \in PedidoIds : V_PedidoEntregar(s, pedidoId) /\ UNCHANGED varsServidor

SpecVariante == Init /\ [][V_Next]_vars

\* payloads whose customer and items are non-empty texts
DadosTexto == {Objeto(Str(c), Valido) : c \in Textos \ {<<>>}}

\* both servers receive the same event; a timer elapses in both at once,
\* and in src/server.js its callback runs only if it was not cleared
L_Timer(t) ==
    /\ V_TimerExpiracao(t)
    /\ IF t \in timers THEN TimerExpiracao(t) ELSE UNCHANGED varsServidor

L_Next ==
    \/ \E s \in Sockets : SistemaIniciar(s) /\ V_SistemaIniciar(s)
    \/ \E s \in Sockets, dados \in DadosTexto : PedidoCriar(s, dados) /\ V_PedidoCriar(s, dados)
    \/ \E t \in v_timers : L_Timer(t)
    \/ \E s \in Sockets, pedidoId \in PedidoIds : PedidoAceitar(s, pedidoId) /\ V_PedidoAceitar(s, pedidoId)
    \/ \E s \in Sockets, pedidoId \in PedidoIds : PedidoFinalizar(s, pedidoId) /\ V_PedidoFinalizar(s, pedidoId)
    \/ \E s \in Sockets, pedidoId \in PedidoIds : PedidoCancelar(s, pedidoId) /\ V_PedidoCancelar(s, pedidoId)
    \/ \E s \in Sockets, pedidoId \in PedidoIds : PedidoEntregar(s, pedidoId) /\ V_PedidoEntregar(s, pedidoId)

SpecLado == Init /\ [][L_Next]_vars

\* ------------------------------------------------------------ properties
\* position in the collection of the order object u, 0 if it is not there
Pos(u) ==
    LET achados == {i \in 1..Len(pedidos) : pedidos[i].uid = u}
    IN IF achados = {} THEN 0 ELSE CHOOSE i \in achados : TRUE

PosDepois(u) ==
    LET achados == {i \in 1..Len(pedidos') : pedidos'[i].uid = u}
    IN IF achados = {} THEN 0 ELSE CHOOSE i \in achados : TRUE

\* the transition table: <<from, handler, to>>
Tabela ==
    {<<"pendente", "pedido.aceitar", "preparando">>,
     <<"pendente", "timer", "expirado">>,
     <<"pendente", "pedido.cancelar", "cancelado">>,
     <<"preparando", "pedido.finalizar", "pronto">>,
     <<"preparando", "pedido.cancelar", "cancelado">>,
     <<"pronto", "pedido.entregar", "entregue">>,
     <<"pronto", "pedido.cancelar", "cancelado">>}

EUmErroDepois(s) ==
    /\ Len(emitidos') = 1
    /\ emitidos'[1].evento = "erro.operacao"
    /\ emitidos'[1].para = s

\* C1: every change of an order's status is an edge of the transition table
\* made by that edge's handler, and an expired order never changes status:
\* every action on it, cancel included, is answered with an error.
C1_SoTransicoesDaTabela ==
    [][\A u \in Uids :
         (Pos(u) # 0 /\ PosDepois(u) # 0) =>
           LET de == pedidos[Pos(u)].status
               para == pedidos'[PosDepois(u)].status
           IN /\ de # para => <<de, ultima'.op, para>> \in Tabela
              /\ de = "expirado" => para = "expirado"
              /\ \A s \in Sockets :
                   (de = "expirado" /\ PedidoCancelar(s, [t |-> "number", v |-> pedidos[Pos(u)].id]))
                     => EUmErroDepois(s)]_vars

\* C2: a delivered or canceled order keeps its status while it is in the
\* collection, and a cancel of it changes nothing and is answered with one
\* error to the caller.
C2_TerminalNaoMuda ==
    [][\A u \in Uids :
         (/\ Pos(u) # 0
          /\ pedidos[Pos(u)].status \in {"entregue", "cancelado"}
          /\ PosDepois(u) # 0) =>
           /\ pedidos'[PosDepois(u)].status = pedidos[Pos(u)].status
           /\ \A s \in Sockets :
                (/\ ultima'.op = "pedido.cancelar"
                 /\ Find([t |-> "number", v |-> pedidos[Pos(u)].id]) = Pos(u)
                 /\ PedidoCancelar(s, [t |-> "number", v |-> pedidos[Pos(u)].id]))
                  => EUmErroDepois(s) /\ UNCHANGED estado]_vars

\* a delivered order whose cancel has just been refused
C2_Witness ==
    /\ Len(pedidos) = 1
    /\ pedidos[1].status = "entregue"
    /\ ultima.op = "pedido.cancelar"
    /\ emitidos = <<ErroOperacao("s2", "Este pedido não pode ser cancelado!")>>

\* the pedido.expirado broadcasts of a list of outputs
Expirados(saida) == {k \in 1..Len(saida) : saida[k].evento = "pedido.expirado"}

\* C3: a live timer always belongs to an order that is in the collection
\* and still pending, and is the one recorded in the map, so no callback
\* runs after its order left pending; pedido.expirado is broadcast only for
\* an order that was pending and never accepted, at most once per order,
\* and no order is both accepted and expired.
C3_TimerSoDePendente ==
    /\ [](\A t \in timers :
            /\ Pos(t.h) # 0
            /\ pedidos[Pos(t.h)].status = "pendente"
            /\ pedidos[Pos(t.h)].id = t.id
            /\ t.id \in DOMAIN timersExpiracao
            /\ timersExpiracao[t.id] = t.h)
    /\ [](\A u \in Uids : hist[u].expirados <= 1 /\ ~(hist[u].aceito /\ hist[u].expirados > 0))
    /\ [][\A k \in Expirados(emitidos') :
            LET u == emitidos'[k].pedido[1].uid
            IN /\ Pos(u) # 0
               /\ pedidos[Pos(u)].status = "pendente"
               /\ ~hist[u].aceito
               /\ \E t \in timers : t.h = u /\ t \notin timers']_vars

\* one order accepted and a later one expired by its own timer
C3_Witness ==
    /\ Len(pedidos) = 2
    /\ pedidos[1].status = "preparando"
    /\ pedidos[2].status = "expirado"
    /\ ultima.op = "timer"
    /\ timers = {}
\* the order object u is in the collection with this status
Tem(u, st) == Pos(u) # 0 /\ pedidos[Pos(u)].status = st

\* C4: with the timer scheduled fairly, an order that is pending is later
\* expired, with exactly one pedido.expirado broadcast for it, unless it is
\* accepted, canceled or removed by a reset; an expired order has been
\* broadcast as expired once, and the broadcast carries status expirado.
C4_PendenteExpira ==
    /\ \A u \in Uids :
         Tem(u, "pendente") ~>
           \/ Tem(u, "expirado") /\ hist[u].expirados = 1
           \/ Tem(u, "preparando")
           \/ Tem(u, "cancelado")
           \/ Pos(u) = 0
    /\ [](\A u \in Uids : Tem(u, "expirado") => hist[u].expirados = 1)
    /\ [](\A k \in Expirados(emitidos) : emitidos[k].pedido[1].status = "expirado")

\* an order that was left alone and has just been expired by its timer
C4_Witness ==
    /\ Len(pedidos) = 1
    /\ pedidos[1].status = "expirado"
    /\ hist[pedidos[1].uid].expirados = 1
    /\ ultima.op = "timer"
    /\ emitidos = <<Broadcast("pedido.expirado", pedidos[1])>>
\* C5 as claimed: over the whole run, resets included, a later order object
\* always gets a strictly larger id than every earlier one.
C5_IdsNuncaReusados ==
    \A a, b \in 1..Len(atribuidos) : a < b => atribuidos[a] < atribuidos[b]

\* C5 amended: the orders created since the last reset, which are the
\* orders of the collection, have distinct ids that increase in creation
\* order, and each was given the value of the counter at its creation.
C5_IdsCrescemEntreResets ==
    /\ \A i, j \in 1..Len(pedidos) : i < j => pedidos[i].id < pedidos[j].id
    /\ \A i \in 1..Len(pedidos) : pedidos[i].id < proximoId /\ atribuidos[pedidos[i].uid] = pedidos[i].id

\* two orders created one after the other, no reset in between
C5_Witness ==
    /\ Len(pedidos) = 2
    /\ pedidos[1].id = 1
    /\ pedidos[2].id = 2
    /\ ultima.op = "pedido.criar"

\* C6: a reset leaves no order, the counter at 1, an empty timer map and no
\* live timer, and does not touch the active flag.
C6_ResetLimpaTudo ==
    [][\A s \in Sockets :
         SistemaReset(s) =>
           /\ pedidos' = <<>>
           /\ proximoId' = 1
           /\ timersExpiracao' = <<>>
           /\ timers' = {}
           /\ sistemaAtivo' = sistemaAtivo]_vars

\* a reset of a started system in which orders had been created
C6_Witness ==
    /\ ultima.op = "sistema.reset"
    /\ Criados >= 2
    /\ sistemaAtivo
    /\ pedidos = <<>>
    /\ proximoId = 1
    /\ timers = {}

\* C7: a create while the system is not active changes no state and its
\* only output is one erro.operacao to the caller.
C7_CriarInativo ==
    [][\A s \in Sockets, dados \in Dados :
         (~sistemaAtivo /\ PedidoCriar(s, dados)) =>
           /\ UNCHANGED <<estado, atribuidos>>
           /\ EUmErroDepois(s)
           /\ emitidos'[1].mensagem = "Sistema não está ativo!"]_vars

\* a create refused before the system was started
C7_Witness ==
    /\ ~sistemaAtivo
    /\ ultima.op = "pedido.criar"
    /\ emitidos = <<ErroOperacao("s1", "Sistema não está ativo!")>>
    /\ pedidos = <<>>
    /\ proximoId = 1

\* a property value that is missing, empty or only whitespace
SemTexto(val) == val.t = "undefined" \/ (val.t = "string" /\ Trim(val.v) = <<>>)

\* C8: every order of the collection has a non-empty customer and a
\* non-empty items text, and a create whose customer or items is missing,
\* empty or only whitespace appends nothing and answers with one error.
C8_ClienteEItensNaoVazios ==
    /\ [](\A i \in 1..Len(pedidos) : pedidos[i].cliente # <<>> /\ pedidos[i].itens # <<>>)
    /\ [][\A s \in Sockets, dados \in Dados \ {SemDados} :
            (sistemaAtivo /\ (SemTexto(dados.cliente) \/ SemTexto(dados.itens)) /\ PedidoCriar(s, dados)) =>
              /\ pedidos' = pedidos
              /\ EUmErroDepois(s)]_vars

\* C9: an accept, finalize, cancel or deliver whose id matches no order, or
\* whose order is in a status the handler refuses, changes no state and its
\* only output is one erro.operacao to the caller.
C9_RejeicaoNaoMudaNada ==
    [][\A s \in Sockets, pedidoId \in PedidoIds :
         LET i == Find(pedidoId)
             st == IF i = 0 THEN "nenhum" ELSE pedidos[i].status
             Intacto == UNCHANGED <<estado, atribuidos, hist>> /\ EUmErroDepois(s)
             Foi(op) == ultima'.op = op
         IN /\ (Foi("pedido.aceitar") /\ st # "pendente" /\ PedidoAceitar(s, pedidoId)) => Intacto
            /\ (Foi("pedido.finalizar") /\ st # "preparando" /\ PedidoFinalizar(s, pedidoId)) => Intacto
            /\ (Foi("pedido.cancelar") /\ st \in {"nenhum", "entregue", "cancelado"} /\ PedidoCancelar(s, pedidoId)) => Intacto
            /\ (Foi("pedido.entregar") /\ st # "pronto" /\ PedidoEntregar(s, pedidoId)) => Intacto]_vars

\* a finalize of an order that was never accepted has just been refused
C9_Witness ==
    /\ Len(pedidos) = 1
    /\ pedidos[1].status = "pendente"
    /\ 1 \in DOMAIN timersExpiracao
    /\ ultima.op = "pedido.finalizar"
    /\ emitidos = <<ErroOperacao("s1", "Apenas pedidos em preparo podem ser finalizados!")>>

\* C10: whatever the payload, a create either appends the order or answers
\* the caller with one erro.operacao and changes no state; it never throws.
C10_CriarNuncaLanca ==
    [][\A s \in Sockets, dados \in Dados :
         PedidoCriar(s, dados) =>
           /\ ~ultima'.excecao
           /\ \/ /\ Len(pedidos') = Len(pedidos) + 1
                 /\ proximoId' = proximoId + 1
              \/ /\ UNCHANGED <<estado, atribuidos>>
                 /\ EUmErroDepois(s)]_vars
\* C11: two live timers never belong to the same order or to the same id,
\* and every live timer is the handle the map holds under its order's id.
C11_UmTimerVivoPorPedido ==
    /\ \A t1, t2 \in timers : (t1.h = t2.h \/ t1.id = t2.id) => t1 = t2
    /\ \A t \in timers :
         /\ t.id \in DOMAIN timersExpiracao
         /\ timersExpiracao[t.id] = t.h
         /\ Pos(t.h) # 0
         /\ pedidos[Pos(t.h)].id = t.id

\* two orders, each with its own live timer
C11_Witness ==
    /\ Cardinality(timers) = 2
    /\ DOMAIN timersExpiracao = {1, 2}
    /\ timersExpiracao[1] # timersExpiracao[2]
    /\ Len(pedidos) = 2

\* C12: the flag starts false, only sistema.iniciar makes it true, nothing
\* makes it false again, and sistema.iniciar on an active system changes
\* no state and broadcasts sistema.iniciado.
C12_AtivoSoLiga ==
    /\ ~sistemaAtivo
    /\ [][/\ sistemaAtivo => sistemaAtivo'
          /\ (~sistemaAtivo /\ sistemaAtivo') => ultima'.op = "sistema.iniciar"
          /\ \A s \in Sockets :
               (sistemaAtivo /\ ultima'.op = "sistema.iniciar" /\ SistemaIniciar(s)) =>
                 /\ UNCHANGED <<estado, atribuidos, hist>>
                 /\ emitidos' = <<Aviso("sistema.iniciado", "Sistema de pedidos iniciado!")>>]_vars

\* sistema.iniciar has just run on a system that already held an order
C12_Witness ==
    /\ sistemaAtivo
    /\ ultima.op = "sistema.iniciar"
    /\ Len(pedidos) = 1
    /\ emitidos = <<Aviso("sistema.iniciado", "Sistema de pedidos iniciado!")>>

\* handlers other than create and reset
SemCriarNemReset == {"sistema.iniciar", "pedido.aceitar", "pedido.finalizar", "pedido.cancelar", "pedido.entregar", "timer"}

\* C13: outside a reset the collection keeps its entries in place; it grows
\* only by one order put at the end, pending, numbered with the counter's
\* value before the call, and the counter then grows by one; the other
\* handlers change neither the counter nor the length.
C13_ColecaoSoCresce ==
    [][ultima'.op # "sistema.reset" =>
         /\ Len(pedidos') >= Len(pedidos)
         /\ \A i \in 1..Len(pedidos) : pedidos'[i].uid = pedidos[i].uid /\ pedidos'[i].id = pedidos[i].id
         /\ Len(pedidos') # Len(pedidos) =>
              /\ ultima'.op = "pedido.criar"
              /\ Len(pedidos') = Len(pedidos) + 1
              /\ pedidos'[Len(pedidos')].status = "pendente"
              /\ pedidos'[Len(pedidos')].id = proximoId
              /\ proximoId' = proximoId + 1
         /\ ultima'.op \in SemCriarNemReset => proximoId' = proximoId /\ Len(pedidos') = Len(pedidos)]_vars

\* a second order has just been appended after a first one that moved on
C13_Witness ==
    /\ ultima.op = "pedido.criar"
    /\ Len(pedidos) = 2
    /\ pedidos[1].status = "pronto"
    /\ pedidos[2].status = "pendente"
    /\ pedidos[2].id = 2
    /\ proximoId = 3
\* C14: in the variant a cancel of an order that is already canceled or
\* delivered changes no order, broadcasts nothing and answers the caller
\* with one erro.operacao.
C14_VarianteRecusaCancelar ==
    [][\A s \in Sockets, pedidoId \in PedidoIds :
         LET i == V_Find(pedidoId) IN
         (/\ i # 0
          /\ v_pedidos[i].status \in {"cancelado", "entregue"}
          /\ v_ultima'.op = "pedido.cancelar"
          /\ V_PedidoCancelar(s, pedidoId)) =>
           /\ v_pedidos' = v_pedidos
           /\ Len(v_emitidos') = 1
           /\ v_emitidos'[1].evento = "erro.operacao"
           /\ v_emitidos'[1].para = s]_vars

\* C17: in the variant an order becomes expired only from pending and only
\* in its timer's callback; a callback that finds its order no longer
\* pending changes nothing and emits nothing; pedido.expirado is broadcast
\* only for an order that was pending, at most once per order.
C17_VarianteCallbackInofensivo ==
    /\ [](\A u \in Uids : v_expirados[u] <= 1)
    /\ [][/\ \A i \in 1..Len(v_pedidos) :
               (v_pedidos'[i].status = "expirado" /\ v_pedidos[i].status # "expirado") =>
                 v_pedidos[i].status = "pendente" /\ v_ultima'.op = "timer"
          /\ \A k \in Expirados(v_emitidos') :
               LET u == v_emitidos'[k].pedido[1].uid
               IN u <= Len(v_pedidos) /\ v_pedidos[u].status = "pendente" /\ v_expirados[u] = 0
          /\ \A t \in v_timers :
               (/\ v_ultima'.op = "timer"
                /\ v_pedidos[t.h].status # "pendente"
                /\ V_TimerExpiracao(t)) =>
                 v_pedidos' = v_pedidos /\ v_emitidos' = <<>>]_vars

\* the timer of an accepted order has just run and done nothing
C17_Witness ==
    /\ Len(v_pedidos) = 1
    /\ v_pedidos[1].status = "preparando"
    /\ v_ultima.op = "timer"
    /\ v_timers = {}
    /\ v_emitidos = <<>>
    /\ v_expirados[1] = 0
\* the event that announces an order reaching a status
EventoDe(st) ==
    CASE st = "pendente" -> "pedido.criado"
      [] st = "preparando" -> "pedido.aceito"
      [] st = "pronto" -> "pedido.finalizado"
      [] st = "cancelado" -> "pedido.cancelado"
      [] st = "entregue" -> "pedido.entregue"
      [] st = "expirado" -> "pedido.expirado"

EventosDePedido == {"pedido.criado", "pedido.aceito", "pedido.finalizado", "pedido.cancelado", "pedido.entregue", "pedido.expirado"}

\* the orders that a step appends or moves to another status
Mudados ==
    {i \in 1..Len(pedidos') : i > Len(pedidos) \/ pedidos'[i].status # pedidos[i].status}

\* C15: a step that appends an order or changes an order's status emits
\* exactly one event, to everyone, named after the status reached and
\* carrying the order as it is after the change; an order event is emitted
\* only by such a step.
C15_UmBroadcastPorTransicao ==
    [][/\ \A i \in Mudados :
            emitidos' = <<[para |-> "io", evento |-> EventoDe(pedidos'[i].status), mensagem |-> "", pedido |-> <<pedidos'[i]>>]>>
       /\ \A k \in 1..Len(emitidos') :
            emitidos'[k].evento \in EventosDePedido => Mudados # {}]_vars

\* a delivery has just been announced with the delivered order
C15_Witness ==
    /\ Len(pedidos) = 1
    /\ pedidos[1].status = "entregue"
    /\ ultima.op = "pedido.entregar"
    /\ Len(emitidos) = 1
    /\ emitidos[1].para = "io"
    /\ emitidos[1].evento = "pedido.entregue"
    /\ emitidos[1].pedido = <<pedidos[1]>>

\* C16: no timer of an order that a reset removed stays live, and an order
\* becomes expired only in the callback of the timer scheduled when that
\* very order object was created, also when its id was used before a reset.
C16_ExpiraPeloProprioTimer ==
    /\ [](\A t \in timers : Pos(t.h) # 0)
    /\ [][\A u \in Uids :
            (/\ Pos(u) # 0
             /\ PosDepois(u) # 0
             /\ pedidos[Pos(u)].status # "expirado"
             /\ pedidos'[PosDepois(u)].status = "expirado") =>
              /\ ultima'.op = "timer"
              /\ timers \ timers' = {[h |-> u, id |-> pedidos[Pos(u)].id]}]_vars

\* an order that reuses id 1 after a reset has been expired
C16_Witness ==
    /\ atribuidos = <<1, 1>>
    /\ Len(pedidos) = 1
    /\ pedidos[1].uid = 2
    /\ pedidos[1].id = 1
    /\ pedidos[1].status = "expirado"
    /\ ultima.op = "timer"

\* C18: the keys of the timer map are exactly the ids of the pending orders
\* of the collection.
C18_MapaIgualPendentes ==
    DOMAIN timersExpiracao = {pedidos[i].id : i \in {j \in 1..Len(pedidos) : pedidos[j].status = "pendente"}}

\* of two orders the accepted one has left the map, the pending one is in it
C18_Witness ==
    /\ Len(pedidos) = 2
    /\ pedidos[1].status = "preparando"
    /\ pedidos[2].status = "pendente"
    /\ DOMAIN timersExpiracao = {2}

\* everything but the order at position i, its timer and the outputs is kept
Moldura(i) ==
    /\ i # 0
    /\ Len(pedidos') = Len(pedidos)
    /\ \A j \in 1..Len(pedidos) : j # i => pedidos'[j] = pedidos[j]
    /\ pedidos'[i].id = pedidos[i].id
    /\ pedidos'[i].uid = pedidos[i].uid
    /\ sistemaAtivo' = sistemaAtivo
    /\ proximoId' = proximoId
    /\ timers' \subseteq timers
    /\ \A t \in timers : t.h # pedidos[i].uid => t \in timers'
    /\ DOMAIN timersExpiracao' \subseteq DOMAIN timersExpiracao
    /\ \A k \in DOMAIN timersExpiracao :
         k # pedidos[i].id => k \in DOMAIN timersExpiracao' /\ timersExpiracao'[k] = timersExpiracao[k]

\* C19: an accept, finalize, cancel or deliver that changes the collection,
\* and a timer callback that does, change only the order found under the
\* id they were given: the other orders, their timers, the flag, the
\* counter and the order of the collection stay as they were.
C19_SoOPedidoDoId ==
    [][pedidos' # pedidos =>
         /\ \A s \in Sockets, pedidoId \in PedidoIds :
              /\ (ultima'.op = "pedido.aceitar" /\ PedidoAceitar(s, pedidoId)) => Moldura(Find(pedidoId))
              /\ (ultima'.op = "pedido.finalizar" /\ PedidoFinalizar(s, pedidoId)) => Moldura(Find(pedidoId))
              /\ (ultima'.op = "pedido.cancelar" /\ PedidoCancelar(s, pedidoId)) => Moldura(Find(pedidoId))
              /\ (ultima'.op = "pedido.entregar" /\ PedidoEntregar(s, pedidoId)) => Moldura(Find(pedidoId))
         /\ \A t \in timers :
              (ultima'.op = "timer" /\ TimerExpiracao(t)) => Moldura(Find([t |-> "number", v |-> t.id]))]_vars

\* the second order has just been accepted, the first still waits
C19_Witness ==
    /\ Len(pedidos) = 2
    /\ pedidos[1].status = "pendente"
    /\ pedidos[2].status = "preparando"
    /\ ultima.op = "pedido.aceitar"
    /\ timers = {[h |-> 1, id |-> 1]}
    /\ DOMAIN timersExpiracao = {1}
\* what the two servers always agree on: the flag, the counter, and each
\* order's id, status and creating connection
MesmoRegistro ==
    /\ sistemaAtivo = v_sistemaAtivo
    /\ proximoId = v_proximoId
    /\ Len(pedidos) = Len(v_pedidos)
    /\ \A i \in 1..Len(pedidos) :
         i <= Len(v_pedidos) =>
           /\ pedidos[i].id = v_pedidos[i].id
           /\ pedidos[i].status = v_pedidos[i].status
           /\ pedidos[i].socketId = v_pedidos[i].socketId

====
